---- MODULE Spec2Model ----
(***************************************************************************)
(* Model of utils/python/amino_acid.py (class AminoAcid), the parser of    *)
(* HGVS protein notation strings.  A Python string is a sequence of        *)
(* one-character strings; a Python value that may change type (pos,        *)
(* initial, mutated, stop_pos) is a tagged record [t |-> type, v |-> val]. *)
(***************************************************************************)
EXTENDS Integers, Sequences, FiniteSets, TLC

\* ------------------------------------------------------------------------
\* Bounds of the model
\* ------------------------------------------------------------------------

\* number of lexemes in the body of a generated notation string
MaxParts == 3

\* occurrence weights passed to the constructor and set_occurrence: 1..MaxOccur
MaxOccur == 2

\* number of lexemes in the body of a notation string of an object that
\* set_amino_acid is then called on
MaxRetargetParts == 2

\* length of the sequence of notation strings given to count_missense_types
MaxMutations == 3

\* thresholds given to count_missense_types: 1..MaxRecurrent
MaxRecurrent == 3

\* ------------------------------------------------------------------------
\* Characters and Python str primitives
\* ------------------------------------------------------------------------

UpperSeq == <<"A","B","C","D","E","F","G","H","I","J","K","L","M",
              "N","O","P","Q","R","S","T","U","V","W","X","Y","Z">>

LowerSeq == <<"a","b","c","d","e","f","g","h","i","j","k","l","m",
              "n","o","p","q","r","s","t","u","v","w","x","y","z">>

DigitSeq == <<"0","1","2","3","4","5","6","7","8","9">>

Range(f) == {f[i] : i \in DOMAIN f}

UpperLetters == Range(UpperSeq)

LowerLetters == Range(LowerSeq)

Digits == Range(DigitSeq)

\* the line break, the one character '.' of a Python regex does not match
NL == "\n"

\* str.upper() on one character
UpperChar(c) ==
    IF c \in LowerLetters
    THEN UpperSeq[CHOOSE i \in DOMAIN LowerSeq : LowerSeq[i] = c]
    ELSE c

\* str.upper()
Upper(s) == [i \in DOMAIN s |-> UpperChar(s[i])]

\* value of a decimal digit character
DigitVal(c) == (CHOOSE i \in DOMAIN DigitSeq : DigitSeq[i] = c) - 1

\* sub in s   (Python substring containment)
Contains(s, sub) ==
    \E i \in 1..(Len(s) - Len(sub) + 1) : SubSeq(s, i, i + Len(sub) - 1) = sub

\* s.startswith(pre)
StartsWith(s, pre) == Len(s) >= Len(pre) /\ SubSeq(s, 1, Len(pre)) = pre

\* s.endswith(suf)
EndsWith(s, suf) ==
    Len(s) >= Len(suf) /\ SubSeq(s, Len(s) - Len(suf) + 1, Len(s)) = suf

\* s[1:-1]
Inner(s) == SubSeq(s, 2, Len(s) - 1)

AllIn(s, class) == \A i \in DOMAIN s : s[i] \in class

\* s.strip() of whitespace; the line break is the only whitespace modelled
RECURSIVE StripNL(_)
StripNL(s) ==
    IF s = <<>> THEN s
    ELSE IF s[1] = NL THEN StripNL(Tail(s))
    ELSE IF s[Len(s)] = NL THEN StripNL(SubSeq(s, 1, Len(s) - 1))
    ELSE s

\* s.strip('?')
RECURSIVE StripQ(_)
StripQ(s) ==
    IF s = <<>> THEN s
    ELSE IF s[1] = "?" THEN StripQ(Tail(s))
    ELSE IF s[Len(s)] = "?" THEN StripQ(SubSeq(s, 1, Len(s) - 1))
    ELSE s

\* value of a string of decimal digits
RECURSIVE DigitsToInt(_)
DigitsToInt(d) ==
    IF d = <<>> THEN 0
    ELSE 10 * DigitsToInt(SubSeq(d, 1, Len(d) - 1)) + DigitVal(d[Len(d)])

\* int(s) succeeds: surrounding whitespace is ignored, the rest is digits
IntOk(s) == StripNL(s) # <<>> /\ AllIn(StripNL(s), Digits)

\* int(s) when it succeeds
IntOf(s) == DigitsToInt(StripNL(s))

\* the strings at which a regex '$' can match: the end of s, or just before
\* a line break that ends s
DollarEnds(s) ==
    {s} \cup (IF s # <<>> /\ s[Len(s)] = NL
              THEN {SubSeq(s, 1, Len(s) - 1)} ELSE {})

\* end of the longest run of characters of class that starts at index i
\* (i - 1 when s[i] is not in class)
RunEnd(s, i, class) ==
    CHOOSE j \in (i - 1)..Len(s) :
        /\ \A k \in i..j : s[k] \in class
        /\ (j = Len(s) \/ s[j + 1] \notin class)

\* ------------------------------------------------------------------------
\* Python values of the attributes whose type varies
\* ------------------------------------------------------------------------

PyInt(n) == [t |-> "int", v |-> n]

PyStr(s) == [t |-> "str", v |-> s]

PyList(l) == [t |-> "list", v |-> l]

PyBool(b) == [t |-> "bool", v |-> b]

PyNone == [t |-> "None", v |-> 0]

\* an attribute that no assignment has created yet (reading it raises
\* AttributeError)
Unset == [t |-> "unset", v |-> 0]

\* ------------------------------------------------------------------------
\* Regular expressions of amino_acid.py
\* ------------------------------------------------------------------------

ResidueOrQ == UpperLetters \cup {"?"}

\* the missense pattern without its '^' anchor: re.search('[A-Z?]\d+[A-Z?]$', s)
MissenseRegexNoCaret(s) ==
    \E k \in 1..Len(s) : \E e \in DollarEnds(SubSeq(s, k, Len(s))) :
        /\ Len(e) >= 3
        /\ e[1] \in ResidueOrQ
        /\ e[Len(e)] \in ResidueOrQ
        /\ AllIn(Inner(e), Digits)

\* re.search('^[A-Z?]\d+[A-Z?]$', s)
MissenseRegex(s) ==
    \E e \in DollarEnds(s) :
        /\ Len(e) >= 3
        /\ e[1] \in ResidueOrQ
        /\ e[Len(e)] \in ResidueOrQ
        /\ AllIn(Inner(e), Digits)

\* re.search('.+\*(\d+)?$', s)
PrematureStopRegex(s) ==
    \E i \in 2..Len(s) :
        /\ s[i] = "*"
        /\ s[i - 1] # NL
        /\ \E e \in DollarEnds(s) :
              Len(e) >= i /\ AllIn(SubSeq(e, i + 1, Len(e)), Digits)

\* start indexes of the matches of '[A-Z]\d+' in s, in order
ResidueNumberStarts(s) ==
    SelectSeq([i \in 1..Len(s) |-> i],
              LAMBDA i : s[i] \in UpperLetters /\ i < Len(s) /\ s[i + 1] \in Digits)

\* re.findall('([A-Z])\d+', s)
FindResidues(s) ==
    LET st == ResidueNumberStarts(s)
    IN  [k \in DOMAIN st |-> <<s[st[k]]>>]

\* re.findall('[A-Z](\d+)', s)
FindNumbers(s) ==
    LET st == ResidueNumberStarts(s)
    IN  [k \in DOMAIN st |-> SubSeq(s, st[k] + 1, RunEnd(s, st[k] + 1, Digits))]

\* l[:2]
FirstTwo(l) == SubSeq(l, 1, IF Len(l) < 2 THEN Len(l) ELSE 2)

\* map(int, l) on strings of digits
MapInt(l) == [k \in DOMAIN l |-> DigitsToInt(l[k])]

InsClass == UpperLetters \cup Digits \cup {"?"}

\* index at which the first match of '(?<=INS)[A-Z0-9?]+' starts, 0 if none
InsMatchStart(s) ==
    LET ok == {i \in 4..Len(s) :
                 SubSeq(s, i - 3, i - 1) = <<"I", "N", "S">> /\ s[i] \in InsClass}
    IN  IF ok = {} THEN 0 ELSE CHOOSE i \in ok : \A j \in ok : i <= j

\* re.findall('(?<=INS)[A-Z0-9?]+', s)[0], when there is a match
InsMatch(s) ==
    SubSeq(s, InsMatchStart(s), RunEnd(s, InsMatchStart(s), InsClass))

\* index at which the first match of '(?<=DEL)[A-Z]*' starts, 0 if none
\* (the match may be empty, so it may start at Len(s) + 1)
DelMatchStart(s) ==
    LET ok == {i \in 4..(Len(s) + 1) : SubSeq(s, i - 3, i - 1) = <<"D", "E", "L">>}
    IN  IF ok = {} THEN 0 ELSE CHOOSE i \in ok : \A j \in ok : i <= j

\* re.findall('(?<=DEL)[A-Z]*', s)[0], when there is a match
DelMatch(s) ==
    SubSeq(s, DelMatchStart(s), RunEnd(s, DelMatchStart(s), UpperLetters))

\* index of the '*' at which '\*>?(\d+)$' matches in s, 0 if none
StopMatchStart(s) ==
    LET ok == {i \in 1..Len(s) :
                 /\ s[i] = "*"
                 /\ \E e \in DollarEnds(s) : \E g \in {i + 1, i + 2} :
                       /\ g = i + 2 => (i + 1 <= Len(e) /\ e[i + 1] = ">")
                       /\ g <= Len(e)
                       /\ AllIn(SubSeq(e, g, Len(e)), Digits)}
    IN  IF ok = {} THEN 0 ELSE CHOOSE i \in ok : \A j \in ok : i <= j

\* re.findall('\*>?(\d+)$', s)[0], when there is a match
StopMatch(s) ==
    LET i == StopMatchStart(s)
        g == IF i < Len(s) /\ s[i + 1] = ">" THEN i + 2 ELSE i + 1
    IN  SubSeq(s, g, RunEnd(s, g, Digits))

\* ------------------------------------------------------------------------
\* The AminoAcid object
\* ------------------------------------------------------------------------

\* the attributes of an AminoAcid object before __init__ has assigned any
NoObject ==
    [hgvs_original |-> Unset, hgvs |-> Unset, occurrence |-> Unset,
     unknown_effect |-> Unset, is_missing_info |-> Unset, no_protein |-> Unset,
     is_missense |-> Unset, is_insertion |-> Unset, is_deletion |-> Unset,
     is_indel |-> Unset, is_frame_shift |-> Unset,
     is_premature_stop_codon |-> Unset, is_nonsense_mutation |-> Unset,
     is_valid |-> Unset, initial |-> Unset, mutated |-> Unset, pos |-> Unset,
     stop_pos |-> Unset, is_synonymous |-> Unset, mutation_type |-> Unset]

\* a method that returned, and a method that raised exception e, leaving the
\* object as the assignments before the raise made it
Ok(o) == [self |-> o, exc |-> "none"]

Raise(o, e) == [self |-> o, exc |-> e]

\* s[2:] if s.startswith('P.') else s
StripPrefix(s) ==
    IF StartsWith(s, <<"P", ".">>) THEN SubSeq(s, 3, Len(s)) ELSE s

set_missense_status(o, hgvs_string) ==
    [o EXCEPT !.is_missense = MissenseRegex(hgvs_string)]

set_frame_shift_status(o) ==
    [o EXCEPT !.is_frame_shift = Contains(o.hgvs_original, <<"f", "s">>)]

set_premature_stop_codon_status(o, hgvs_string) ==
    IF PrematureStopRegex(hgvs_string)
    THEN [o EXCEPT !.is_premature_stop_codon = TRUE,
                   !.is_nonsense_mutation = EndsWith(hgvs_string, <<"*">>)]
    ELSE [o EXCEPT !.is_premature_stop_codon = FALSE,
                   !.is_nonsense_mutation = FALSE]

set_indel_status(o) ==
    IF Contains(o.hgvs_original, <<"i", "n", "s">>)
    THEN [o EXCEPT !.is_insertion = TRUE, !.is_deletion = FALSE, !.is_indel = TRUE]
    ELSE IF Contains(o.hgvs_original, <<"d", "e", "l">>)
    THEN [o EXCEPT !.is_deletion = TRUE, !.is_insertion = FALSE, !.is_indel = TRUE]
    ELSE [o EXCEPT !.is_deletion = FALSE, !.is_insertion = FALSE, !.is_indel = FALSE]

unknown_effect_list == {<<"?">>, <<"(", "=", ")">>, <<"=">>}

\* set_unkown_effect with the missing-information test moved under the
\* unknown-effect list test
set_unkown_effect_listed_only(o, hgvs_string) ==
    [o EXCEPT !.unknown_effect = \/ hgvs_string \in unknown_effect_list
                                 \/ Contains(hgvs_string, <<"(">>),
              !.is_missing_info = /\ hgvs_string \in unknown_effect_list
                                  /\ Contains(hgvs_string, <<"?">>)]

\* set_unkown_effect without the elif branch for a parenthesis
set_unkown_effect_no_paren(o, hgvs_string) ==
    [o EXCEPT !.unknown_effect = hgvs_string \in unknown_effect_list,
              !.is_missing_info = Contains(hgvs_string, <<"?">>)]

set_unkown_effect(o, hgvs_string) ==
    [o EXCEPT !.unknown_effect = \/ hgvs_string \in unknown_effect_list
                                 \/ Contains(hgvs_string, <<"(">>),
              !.is_missing_info = Contains(hgvs_string, <<"?">>)]

no_protein_list == {<<"0">>, <<"0", "?">>}

set_no_protein(o, hgvs_string) ==
    [o EXCEPT !.no_protein = hgvs_string \in no_protein_list]

set_mutation_type(o, hgvs_string) ==
    set_premature_stop_codon_status(
        set_frame_shift_status(
            set_indel_status(
                set_missense_status(o, hgvs_string))),
        hgvs_string)

set_mutation_status(o) ==
    LET hgvs_tmp == StripPrefix(o.hgvs)
    IN  set_mutation_type(
            set_no_protein(set_unkown_effect(o, hgvs_tmp), hgvs_tmp),
            hgvs_tmp)

\* the branch of the if/elif chain of __read_hgvs_syntax that the flags select
Branch(o) ==
    IF o.is_missense THEN "Missense"
    ELSE IF o.is_indel THEN
        (IF o.is_insertion THEN "Insertion"
         ELSE IF o.is_deletion THEN "Deletion"
         ELSE "IndelNeither")
    ELSE IF o.is_nonsense_mutation THEN "Nonsense"
    ELSE IF o.is_frame_shift THEN "Frameshift"
    ELSE "Invalid"

\* read_missense with the position sliced as aa_hgvs[2:-1]
read_missense_slice(o, aa_hgvs) ==
    IF aa_hgvs = <<>> THEN Raise(o, "IndexError")
    ELSE LET o1 == [o EXCEPT !.initial = PyStr(<<aa_hgvs[1]>>),
                             !.mutated = PyStr(<<aa_hgvs[Len(aa_hgvs)]>>)]
             d == SubSeq(aa_hgvs, 3, Len(aa_hgvs) - 1)
         IN  IF ~IntOk(d) THEN Raise(o1, "ValueError")
             ELSE Ok([o1 EXCEPT
                        !.pos = PyInt(IntOf(d)),
                        !.stop_pos = PyNone,
                        !.is_synonymous =
                            PyBool(aa_hgvs[1] = aa_hgvs[Len(aa_hgvs)])])

read_missense(o, aa_hgvs) ==
    IF aa_hgvs = <<>> THEN Raise(o, "IndexError")
    ELSE LET o1 == [o EXCEPT !.initial = PyStr(<<aa_hgvs[1]>>),
                             !.mutated = PyStr(<<aa_hgvs[Len(aa_hgvs)]>>)]
         IN  IF ~IntOk(Inner(aa_hgvs)) THEN Raise(o1, "ValueError")
             ELSE Ok([o1 EXCEPT
                        !.pos = PyInt(IntOf(Inner(aa_hgvs))),
                        !.stop_pos = PyNone,
                        !.is_synonymous =
                            PyBool(aa_hgvs[1] = aa_hgvs[Len(aa_hgvs)])])

\* read_insertion without the test of is_missing_info
read_insertion_always_extract(o, aa_hgvs) ==
    LET o1 == [o EXCEPT
                 !.initial = PyList(FirstTwo(FindResidues(aa_hgvs))),
                 !.pos = PyList(MapInt(FirstTwo(FindNumbers(aa_hgvs))))]
    IN  IF InsMatchStart(aa_hgvs) = 0 THEN Raise(o1, "IndexError")
        ELSE Ok([o1 EXCEPT !.mutated = PyStr(StripQ(InsMatch(aa_hgvs)))])

read_insertion(o, aa_hgvs) ==
    IF ~o.is_missing_info
    THEN LET o1 == [o EXCEPT
                      !.initial = PyList(FirstTwo(FindResidues(aa_hgvs))),
                      !.pos = PyList(MapInt(FirstTwo(FindNumbers(aa_hgvs))))]
         IN  IF InsMatchStart(aa_hgvs) = 0 THEN Raise(o1, "IndexError")
             ELSE Ok([o1 EXCEPT !.mutated = PyStr(StripQ(InsMatch(aa_hgvs)))])
    ELSE Ok([o EXCEPT !.initial = PyStr(<<>>), !.pos = PyList(<<>>),
                      !.mutated = PyStr(<<>>)])

read_deletion(o, aa_hgvs) ==
    IF ~o.is_missing_info
    THEN LET o1 == [o EXCEPT
                      !.initial = PyList(FindResidues(aa_hgvs)),
                      !.pos = PyList(MapInt(FindNumbers(aa_hgvs)))]
         IN  IF DelMatchStart(aa_hgvs) = 0 THEN Raise(o1, "IndexError")
             ELSE Ok([o1 EXCEPT !.mutated = PyStr(DelMatch(aa_hgvs))])
    ELSE Ok([o EXCEPT !.initial = PyStr(<<>>), !.pos = PyList(<<>>),
                      !.mutated = PyStr(<<>>)])

\* read_nonsense that leaves the stop position None
read_nonsense_no_stop(o, aa_hgvs) ==
    IF aa_hgvs = <<>> THEN Raise(o, "IndexError")
    ELSE Ok([o EXCEPT !.initial = PyStr(<<aa_hgvs[1]>>),
                      !.mutated = PyStr(<<>>),
                      !.stop_pos = PyNone,
                      !.pos = PyStr(Inner(aa_hgvs))])

read_nonsense(o, aa_hgvs) ==
    IF aa_hgvs = <<>> THEN Raise(o, "IndexError")
    ELSE Ok([o EXCEPT !.initial = PyStr(<<aa_hgvs[1]>>),
                      !.mutated = PyStr(<<>>),
                      !.stop_pos = PyInt(0),
                      !.pos = PyStr(Inner(aa_hgvs))])

read_frame_shift(o, aa_hgvs) ==
    IF aa_hgvs = <<>> THEN Raise(o, "IndexError")
    ELSE LET o1 == [o EXCEPT !.initial = PyStr(<<aa_hgvs[1]>>),
                             !.mutated = PyStr(<<>>)]
         IN  IF FindNumbers(aa_hgvs) = <<>> THEN Raise(o1, "IndexError")
             ELSE LET o2 == [o1 EXCEPT
                               !.pos = PyInt(DigitsToInt(FindNumbers(aa_hgvs)[1]))]
                  IN  IF o2.is_premature_stop_codon
                      THEN IF StopMatchStart(aa_hgvs) = 0
                           THEN Raise(o2, "IndexError")
                           ELSE Ok([o2 EXCEPT
                                      !.stop_pos =
                                          PyInt(DigitsToInt(StopMatch(aa_hgvs)))])
                      ELSE Ok([o2 EXCEPT !.stop_pos = PyNone])

read_hgvs_syntax(o, aa_hgvs) ==
    LET o1 == [o EXCEPT !.is_valid = TRUE]
        b == Branch(o1)
    IN  IF b = "Missense" THEN read_missense(o1, aa_hgvs)
        ELSE IF b = "Insertion" THEN read_insertion(o1, aa_hgvs)
        ELSE IF b = "Deletion" THEN read_deletion(o1, aa_hgvs)
        ELSE IF b = "IndelNeither" THEN Ok(o1)
        ELSE IF b = "Nonsense" THEN read_nonsense(o1, aa_hgvs)
        ELSE IF b = "Frameshift" THEN read_frame_shift(o1, aa_hgvs)
        ELSE Ok([o1 EXCEPT !.is_valid = FALSE])

set_amino_acid(o, aa) ==
    read_hgvs_syntax(set_mutation_status(o), StripPrefix(Upper(aa)))

\* the default of the parameter occurrence of __init__
DefaultOccurrence == 1

\* AminoAcid(hgvs, occurrence)
AminoAcid(hgvs, occurrence) ==
    set_amino_acid([NoObject EXCEPT !.hgvs_original = hgvs,
                                    !.hgvs = Upper(hgvs),
                                    !.occurrence = occurrence],
                   Upper(hgvs))

\* ------------------------------------------------------------------------
\* Notation strings given to the constructor
\* ------------------------------------------------------------------------

Prefixes == {<<>>, <<"p", ".">>}

\* the lexemes a body is made of: a residue with its position, a residue in
\* lower case, the missing-information mark, the indel and frameshift
\* markers, a digit and a line break
Lexemes ==
    {<<"A", "1">>, <<"a">>, <<"?">>, <<"i", "n", "s">>, <<"d", "e", "l">>,
     <<"f", "s">>, <<"0">>, <<NL>>}

\* what a notation ends with: nothing, a stop marker in one of its forms, or
\* an unknown-effect token
Suffixes ==
    {<<>>, <<"*">>, <<"*", "2">>, <<"*", ">", "2">>, <<"*", NL>>, <<"=">>,
     <<"(", "=", ")">>}

\* the concatenations of at most n lexemes
RECURSIVE Bodies(_)
Bodies(n) ==
    IF n = 0 THEN {<<>>}
    ELSE LET prev == Bodies(n - 1)
         IN  prev \cup {b \o l : b \in prev, l \in Lexemes}

Notations ==
    {p \o b \o t : p \in Prefixes, b \in Bodies(MaxParts), t \in Suffixes}

Occurrences == 1..MaxOccur

\* set_occurrence written as a second call of __init__ on the upper-cased
\* string
set_occurrence_reinit(o, occur) == AminoAcid(o.hgvs, occur).self

\* aa.set_occurrence(occur)
set_occurrence(o, occur) == [o EXCEPT !.occurrence = occur]

\* ------------------------------------------------------------------------
\* State machine
\* ------------------------------------------------------------------------

VARIABLES input, self, pc, exc, run

vars == <<input, self, pc, exc, run>>

\* no call of count_missense_types is under way
NoRun ==
    [hgvs_iterable |-> <<>>, recurrent |-> 0, consumed |-> 0,
     gene_pos_ctr |-> <<>>, total_missense_ctr |-> 0, result |-> <<>>]

Init ==
    /\ input \in Notations
    /\ self = NoObject
    /\ pc = "new"
    /\ exc = "none"
    /\ run = NoRun

\* aa = AminoAcid(input, occurrence); occurrence defaults to 1
Construct ==
    /\ pc = "new"
    /\ \E occurrence \in Occurrences \cup {DefaultOccurrence} :
          LET r == AminoAcid(input, occurrence)
          IN  /\ self' = r.self
              /\ exc' = r.exc
              /\ pc' = IF r.exc = "none" THEN "done" ELSE "raised"
    /\ UNCHANGED <<input, run>>

\* aa.set_occurrence(occur)
SetOccurrence ==
    /\ pc = "done"
    /\ \E occur \in Occurrences : self' = set_occurrence(self, occur)
    /\ UNCHANGED <<input, pc, exc, run>>

Next == Construct \/ SetOccurrence

Spec == Init /\ [][Next]_vars

\* notation strings given to set_amino_acid: a deletion, a missense change,
\* a frameshift with its stop and an unknown effect
Retargets ==
    {<<"p", ".", "G", "1", "2", "d", "e", "l">>,
     <<"p", ".", "A", "1", "C">>,
     <<"p", ".", "R", "9", "7", "f", "s", "*", "1", "3">>,
     <<"p", ".", "?">>}

\* aa.set_amino_acid(aa) on a constructed object; input becomes the string
\* given last
SetAminoAcid ==
    /\ pc \in {"done", "set", "set_raised"}
    /\ \E aa \in Retargets :
          LET r == set_amino_acid(self, aa)
          IN  /\ self' = r.self
              /\ exc' = r.exc
              /\ pc' = IF r.exc = "none" THEN "set" ELSE "set_raised"
              /\ input' = aa
    /\ UNCHANGED run

NextRetarget == Construct \/ SetOccurrence \/ SetAminoAcid

\* the notation strings of the objects set_amino_acid is called on
RetargetedNotations ==
    {p \o b \o t : p \in Prefixes, b \in Bodies(MaxRetargetParts), t \in Suffixes}

InitRetarget ==
    /\ input \in RetargetedNotations
    /\ self = NoObject
    /\ pc = "new"
    /\ exc = "none"
    /\ run = NoRun

SpecRetarget == InitRetarget /\ [][NextRetarget]_vars

\* ------------------------------------------------------------------------
\* recurrent_mutation.py: count_missense_types
\* ------------------------------------------------------------------------

\* the notation strings of one gene
GeneNotations ==
    {<<"p", ".", "A", "1", "C">>,
     <<"p", ".", "A", "1", "G">>,
     <<"R", "9", "R">>,
     <<"p", ".", "G", "1", "2", "d", "e", "l">>,
     <<"p", ".", "?">>}

Iterables == UNION {[1..n -> GeneNotations] : n \in 0..MaxMutations}

Thresholds == 1..MaxRecurrent

\* d.setdefault(k, 0); d[k] += 1 on a dict kept as its sequence of items
DictIncrement(d, k) ==
    IF \E i \in DOMAIN d : d[i].key = k
    THEN LET i == CHOOSE j \in DOMAIN d : d[j].key = k
         IN  [d EXCEPT ![i].cts = @ + 1]
    ELSE Append(d, [key |-> k, cts |-> 1])

\* sum([cts for cts in d.values() if cts >= recurrent])
RECURSIVE SumAtLeast(_, _)
SumAtLeast(d, recurrent) ==
    IF d = <<>> THEN 0
    ELSE (IF d[1].cts >= recurrent THEN d[1].cts ELSE 0)
         + SumAtLeast(Tail(d), recurrent)

\* the string 'missense'
MissenseLiteral == <<"m", "i", "s", "s", "e", "n", "s", "e">>

InitCount ==
    /\ input = <<>>
    /\ self = NoObject
    /\ pc = "count"
    /\ exc = "none"
    /\ run \in {[hgvs_iterable |-> h, recurrent |-> n, consumed |-> 0,
                 gene_pos_ctr |-> <<>>, total_missense_ctr |-> 0,
                 result |-> <<>>] : h \in Iterables, n \in Thresholds}

\* one iteration of the loop of _count_recurrent_missense; input and self
\* are its locals hgvs and aa
CountRecurrentMissense ==
    /\ pc = "count"
    /\ run.consumed < Len(run.hgvs_iterable)
    /\ LET hgvs == run.hgvs_iterable[run.consumed + 1]
           r == AminoAcid(hgvs, DefaultOccurrence)
           taken == [run EXCEPT !.consumed = @ + 1]
       IN  /\ input' = hgvs
           /\ self' = r.self
           /\ IF r.exc # "none"
              THEN pc' = "count_raised" /\ exc' = r.exc /\ run' = taken
              ELSE IF r.self.mutation_type = Unset
              THEN pc' = "count_raised" /\ exc' = "AttributeError" /\ run' = taken
              ELSE /\ pc' = "count"
                   /\ exc' = exc
                   /\ run' = IF r.self.mutation_type = PyStr(MissenseLiteral)
                             THEN [taken EXCEPT
                                     !.gene_pos_ctr = DictIncrement(@, r.self.pos),
                                     !.total_missense_ctr = @ + 1]
                             ELSE taken

\* the loop is over: count_missense_types sums and returns
ReturnCounts ==
    /\ pc = "count"
    /\ run.consumed = Len(run.hgvs_iterable)
    /\ LET recurrent_cts == SumAtLeast(run.gene_pos_ctr, run.recurrent)
           missense_cts == run.total_missense_ctr - recurrent_cts
       IN  run' = [run EXCEPT !.result = <<recurrent_cts, missense_cts>>]
    /\ pc' = "returned"
    /\ UNCHANGED <<input, self, exc>>

NextCount == CountRecurrentMissense \/ ReturnCounts

SpecCount == InitCount /\ [][NextCount]_vars

\* ------------------------------------------------------------------------
\* Properties
\* ------------------------------------------------------------------------

\* the constructor's argument, upper-cased and with the prefix stripped
Body == StripPrefix(Upper(input))

\* the category of the record: the branch __read_hgvs_syntax takes
Category == Branch(self)

Categories ==
    {"Missense", "Insertion", "Deletion", "Nonsense", "Frameshift", "Invalid"}

InsMarker == <<"i", "n", "s">>

DelMarker == <<"d", "e", "l">>

FsMarker == <<"f", "s">>

\* one character, and a string, in lower case: a case variant of an input
LowerChar(c) ==
    IF c \in UpperLetters
    THEN LowerSeq[CHOOSE i \in DOMAIN UpperSeq : UpperSeq[i] = c]
    ELSE c

Lower(s) == [i \in DOMAIN s |-> LowerChar(s[i])]

\* b is one residue letter or '?', one or more digits, one residue letter or '?'
MissenseShape(b) ==
    /\ Len(b) >= 3
    /\ b[1] \in ResidueOrQ
    /\ b[Len(b)] \in ResidueOrQ
    /\ AllIn(Inner(b), Digits)

\* C1: constructing AminoAcid(s) never raises, for every string s, and leaves
\* the record with exactly one category.
C1_ConstructionTotal ==
    pc # "new" => pc = "done" /\ Category \in Categories

\* C2: an input whose body is a residue letter or '?', digits, a residue
\* letter or '?' is Missense, its position is the integer value of the
\* digits, initial and mutated are the first and the last character of the
\* body, and it is Synonymous exactly when these two are equal.
C2_Missense ==
    pc # "new" /\ MissenseShape(Body) =>
        /\ pc = "done"
        /\ self.is_missense
        /\ Category = "Missense"
        /\ self.pos = PyInt(DigitsToInt(Inner(Body)))
        /\ self.initial = PyStr(<<Body[1]>>)
        /\ self.mutated = PyStr(<<Body[Len(Body)]>>)
        /\ self.is_synonymous = PyBool(Body[1] = Body[Len(Body)])

\* a missense notation written in lower case, at a position of two digits
C2_Witness ==
    /\ pc = "done"
    /\ MissenseShape(Body)
    /\ input # Upper(input)
    /\ self.pos = PyInt(10)
    /\ self.is_synonymous = PyBool(TRUE)

\* C3: an input that contains 'ins' in any letter case and no '?' is an
\* Insertion whose mutated residues are a non-empty string.
C3_InsertionNonEmpty ==
    pc # "new" /\ Contains(Lower(input), InsMarker) /\ ~Contains(input, <<"?">>) =>
        /\ pc = "done"
        /\ Category = "Insertion"
        /\ self.mutated.t = "str"
        /\ self.mutated.v # <<>>

\* C4: an input that contains 'fs' and matches neither the missense pattern
\* nor 'ins' nor 'del' is a Frameshift, also when it ends in a stop marker.
C4_Frameshift ==
    /\ pc # "new"
    /\ Contains(input, FsMarker)
    /\ ~MissenseShape(Body)
    /\ ~Contains(input, InsMarker)
    /\ ~Contains(input, DelMarker)
    => pc = "done" /\ Category = "Frameshift"

\* the body ends in '*' after at least one character and the input has none
\* of the indel and frameshift markers
C5_Pre ==
    /\ Len(Body) >= 2
    /\ EndsWith(Body, <<"*">>)
    /\ ~Contains(input, InsMarker)
    /\ ~Contains(input, DelMarker)
    /\ ~Contains(input, FsMarker)

\* the record of a nonsense mutation
C5_Post ==
    /\ pc = "done"
    /\ Category = "Nonsense"
    /\ self.stop_pos = PyInt(0)
    /\ self.mutated = PyStr(<<>>)

PriorityCategory(o) ==
    IF o.is_insertion THEN "Insertion"
    ELSE IF o.is_deletion THEN "Deletion"
    ELSE IF o.is_nonsense_mutation THEN "Nonsense"
    ELSE IF o.is_frame_shift THEN "Frameshift"
    ELSE IF o.is_missense THEN "Missense"
    ELSE "Invalid"

\* C6: the branch the extractor takes (missense first, then indel, nonsense,
\* frameshift) yields the category of the priority order indel, nonsense,
\* frameshift, missense, invalid.
C6_PriorityOrder ==
    pc # "new" => Category = PriorityCategory(self)

\* a record with the indel, nonsense and frameshift flags all set
C6_Witness ==
    /\ pc = "done"
    /\ self.is_indel
    /\ self.is_nonsense_mutation
    /\ self.is_frame_shift
    /\ Category = PriorityCategory(self)

\* C7: an input that contains '?' has is_missing_info true, whatever its
\* category.
C7_MissingInfo ==
    pc # "new" /\ Contains(input, <<"?">>) => self.is_missing_info = TRUE

\* a missense record with a '?' residue
C7_Witness ==
    /\ pc = "done"
    /\ Contains(input, <<"?">>)
    /\ Category = "Missense"
    /\ self.is_missing_info

\* C8: an Insertion or Deletion with is_missing_info has empty positions,
\* initial residues and mutated residues.
C8_MissingInfoIndelEmpty ==
    pc # "new" /\ Category \in {"Insertion", "Deletion"} /\ self.is_missing_info =>
        /\ pc = "done"
        /\ self.pos = PyList(<<>>)
        /\ self.initial.t \in {"str", "list"}
        /\ self.initial.v = <<>>
        /\ self.mutated = PyStr(<<>>)

\* an insertion with missing information whose body names a residue and a
\* position
C8_Witness ==
    /\ pc = "done"
    /\ Category = "Insertion"
    /\ self.is_missing_info
    /\ FindNumbers(Body) # <<>>
    /\ self.pos = PyList(<<>>)

\* the classification of a record: category and indel and frameshift flags
Classification(o) ==
    <<Branch(o), o.is_insertion, o.is_deletion, o.is_frame_shift>>

\* C9: AminoAcid(s) and AminoAcid of s in another letter case get the same
\* category and the same insertion, deletion and frameshift flags.
C9_CaseInsensitive ==
    pc = "done" =>
        \A v \in {Upper(input), Lower(input)} :
            LET r == AminoAcid(v, 1)
            IN  r.exc = "none" /\ Classification(r.self) = Classification(self)

\* index of the '*' of a stop marker '*', '*>' followed by digits that ends
\* b, 0 if b has none
TrailingStop(b) ==
    LET ok == {i \in 1..Len(b) :
                 /\ b[i] = "*"
                 /\ \E g \in {i + 1, i + 2} :
                       /\ g = i + 2 => (i + 1 <= Len(b) /\ b[i + 1] = ">")
                       /\ g <= Len(b)
                       /\ AllIn(SubSeq(b, g, Len(b)), Digits)}
    IN  IF ok = {} THEN 0 ELSE CHOOSE i \in ok : TRUE

\* the digits that follow the stop marker that ends b
TrailingStopDigits(b) ==
    LET i == TrailingStop(b)
    IN  SubSeq(b, IF b[i + 1] = ">" THEN i + 2 ELSE i + 1, Len(b))

\* C10: a Frameshift record has the position of the first letter-digit match
\* of the body and the stop offset that trails the '*' at the end of the
\* body, also after '*>'; the stop offset is None only when the body has no
\* trailing stop marker.
C10_FrameshiftStop ==
    pc = "done" /\ Category = "Frameshift" =>
        /\ self.pos = PyInt(DigitsToInt(FindNumbers(Body)[1]))
        /\ IF TrailingStop(Body) # 0
           THEN self.stop_pos = PyInt(DigitsToInt(TrailingStopDigits(Body)))
           ELSE self.stop_pos = PyNone

\* C11: a Nonsense record has an integer position, as a Missense record has:
\* the integer value of the digits between the first character of the body
\* and the trailing '*'.
C11_NonsensePosition ==
    pc = "done" /\ Category = "Nonsense" =>
        /\ self.pos.t = "int"
        /\ AllIn(Inner(Body), Digits)
        /\ self.pos.v = DigitsToInt(Inner(Body))

\* the number of positions pos holds: the length of a list, one for a single
\* value
PosArity(p) == IF p.t = "list" THEN Len(p.v) ELSE 1

\* the number of residues initial holds: the length of a list or of a string
InitialArity(i) == Len(i.v)

\* C12: positions and initial residues have length 1 for missense, nonsense
\* and frameshift records, the same length 1 or 2 for insertions and
\* deletions with full information, and 0 for insertions and deletions with
\* missing information.
C12_Arity ==
    pc = "done" =>
        IF Category \in {"Missense", "Nonsense", "Frameshift"}
        THEN PosArity(self.pos) = 1 /\ InitialArity(self.initial) = 1
        ELSE IF Category \in {"Insertion", "Deletion"}
        THEN IF self.is_missing_info
             THEN PosArity(self.pos) = 0 /\ InitialArity(self.initial) = 0
             ELSE /\ PosArity(self.pos) \in {1, 2}
                  /\ InitialArity(self.initial) = PosArity(self.pos)
        ELSE TRUE

\* the bodies that are an unknown-effect token
UnknownEffectTokens == {<<"?">>, <<"(", "=", ")">>, <<"=">>}

\* the inputs 'p.(=)', 'p.?' and 'p.='
UnknownEffectExamples ==
    {<<"p", ".", "(", "=", ")">>, <<"p", ".", "?">>, <<"p", ".", "=">>}

\* C13: unknown_effect is true exactly when the body is '?', '(=)' or '=' or
\* contains '(', whatever the category; 'p.(=)', 'p.?' and 'p.=' have
\* unknown_effect true and category Invalid.
C13_UnknownEffect ==
    pc # "new" =>
        /\ self.unknown_effect <=>
              (Body \in UnknownEffectTokens \/ \E i \in DOMAIN Body : Body[i] = "(")
        /\ input \in UnknownEffectExamples =>
              pc = "done" /\ self.unknown_effect /\ Category = "Invalid"

\* an insertion with its mutated residues read, whose effect is unknown
C13_Witness ==
    /\ pc = "done"
    /\ self.unknown_effect
    /\ Category = "Insertion"
    /\ self.mutated.v # <<>>

\* C14: a record of category Invalid has positions, initial residues and
\* mutated residues present and empty and the stop offset present and None.
C14_InvalidWellFormed ==
    pc = "done" /\ Category = "Invalid" =>
        /\ ~self.is_valid
        /\ self.pos.t \in {"list", "str"} /\ self.pos.v = <<>>
        /\ self.initial.t \in {"list", "str"} /\ self.initial.v = <<>>
        /\ self.mutated.t = "str" /\ self.mutated.v = <<>>
        /\ self.stop_pos = PyNone

WithoutOccurrence(o) == [o EXCEPT !.occurrence = 0]

FlagsAndFields(o) ==
    [o EXCEPT !.hgvs_original = 0, !.hgvs = 0, !.occurrence = 0]

\* C16: after set_amino_acid(t) the flags and the extracted fields of the
\* record are those of a freshly constructed AminoAcid(t), and the call does
\* not raise where that construction does not.
C16_RetargetAsFresh ==
    pc \in {"set", "set_raised"} /\ AminoAcid(input, DefaultOccurrence).exc = "none" =>
        /\ pc = "set"
        /\ FlagsAndFields(self) =
               FlagsAndFields(AminoAcid(input, DefaultOccurrence).self)

\* the record of the i-th notation string of the run
RecordOf(i) == AminoAcid(run.hgvs_iterable[i], DefaultOccurrence)

\* the i-th notation string of the run is a missense change
IsMissenseAt(i) ==
    RecordOf(i).exc = "none" /\ Branch(RecordOf(i).self) = "Missense"

\* the missense records of the run
MissenseIndexes == {i \in DOMAIN run.hgvs_iterable : IsMissenseAt(i)}

\* the missense records of the run at the position of the i-th
MissenseAtPositionOf(i) ==
    {j \in MissenseIndexes : RecordOf(j).self.pos = RecordOf(i).self.pos}

\* the missense records at positions that have at least recurrent of them
RecurrentIndexes ==
    {i \in MissenseIndexes :
        Cardinality(MissenseAtPositionOf(i)) >= run.recurrent}

\* C17: count_missense_types returns, for every sequence of notation strings
\* and every threshold, the number of missense records at positions with at
\* least recurrent missense records and the number of the other missense
\* records.
C17_MissenseCounts ==
    /\ pc # "count_raised"
    /\ pc = "returned" =>
          run.result = <<Cardinality(RecurrentIndexes),
                         Cardinality(MissenseIndexes) - Cardinality(RecurrentIndexes)>>

====
